---- MODULE Spec2Model ----
(***************************************************************************)
(* Model of lz-solana-decode: three command-line tools that reconstruct    *)
(* the EID -> peer directory of a LayerZero OFT program on Solana.         *)
(*                                                                         *)
(*   src/src/index.ts              targeted / list lookup (readOne)        *)
(*   src/unnamed/part_000 1..94    enumerate tool (fixed offset 8)         *)
(*   src/unnamed/part_000 96..235  scan tool (extractAllEvmPeers)          *)
(*                                                                         *)
(* Bytes are naturals 0..255, a Buffer / Uint8Array is a sequence of       *)
(* bytes (TLA+ index = JS index + 1).  Offsets keep the 0-based values of  *)
(* the source.                                                             *)
(***************************************************************************)
EXTENDS Integers, Sequences, FiniteSets, TLC

VARIABLES
  \* -- the two extractors called on one input buffer
  pieces,     \* the windows, filler and single bytes the buffer is made of
  data,       \* the Buffer handed to the extractor
  peerB32,    \* result of extractPeerBytes32(data)
  peers,      \* result of extractAllEvmPeers(data)
  fpc,        \* "ready" | "one" | "all"
  \* -- index.ts
  args,       \* parsed command line: [list, eid, eidlist]
  ledger,     \* what conn.getAccountInfo answers: address -> account info
  pc,         \* position in main()/readOne()
  idx,        \* position of the batch loop in eids (1-based)
  cur,        \* locals of the running derivePeerPda/readOne call
  rows,       \* rows pushed by the batch loop
  out,        \* what main() reports
  threw,      \* positions of eids whose readOne threw (history)
  \* -- enumerate tool
  accs,       \* answer of conn.getProgramAccounts
  candidates, \* accs filtered by length
  erows,      \* rows read at the fixed offset
  resolved,   \* attribution result
  printed,    \* printed report lines
  epc,        \* position in main()
  \* -- address derivation alone
  dEid,       \* the identifier being derived
  dSeeds,     \* [LE, BE] seeds
  dPdas,      \* [LE, BE] addresses of derivePeerPda, and those of peerPdaFor
  dpc

varsExtract == <<pieces, data, peerB32, peers, fpc>>
varsIndex   == <<args, ledger, pc, idx, cur, rows, out, threw>>
varsEnum    == <<accs, candidates, erows, resolved, printed, epc>>
varsDerive  == <<dEid, dSeeds, dPdas, dpc>>
vars == <<pieces, data, peerB32, peers, fpc,
          args, ledger, pc, idx, cur, rows, out, threw,
          accs, candidates, erows, resolved, printed, epc,
          dEid, dSeeds, dPdas, dpc>>

---------------------------------------------------------------------------
(* Program constants *)

WindowLen == 32
HeadLen == 12
RecordLen == 1654
PeerOffset == 8
DefaultEid == 30109
UnknownEid == -1

(* Bounds of the model *)
MaxPieces == 3
MaxList == 2
MaxAccounts == 2

(* JS null, one per type it stands in for *)
NullBytes == <<>>
NullStr == "null"

---------------------------------------------------------------------------
(* utils *)

Rep(b, n) == [i \in 1..n |-> b]

HexDigits == <<"0", "1", "2", "3", "4", "5", "6", "7",
               "8", "9", "a", "b", "c", "d", "e", "f">>

HexByte(b) == HexDigits[(b \div 16) + 1] \o HexDigits[(b % 16) + 1]

RECURSIVE HexFrom(_, _)
HexFrom(u, i) == IF i > Len(u) THEN "" ELSE HexByte(u[i]) \o HexFrom(u, i + 1)

\* Buffer.from(u).toString("hex")
ToHexString(u) == HexFrom(u, 1)

\* const hex = (u) => "0x" + Buffer.from(u).toString("hex")
hex(u) == "0x" \o ToHexString(u)

\* b32.slice(12): bytes 12.. of the window
Slice12(b32) == SubSeq(b32, HeadLen + 1, Len(b32))


\* the window printed whole, slice(12) left out
bytes32ToEvmNoSlice(b32) == "0x" \o ToHexString(b32)

bytes32ToEvm(b32) == "0x" \o ToHexString(Slice12(b32))

\* data.subarray(off, off + 32), clamped to the buffer like subarray is
Subarray(buf, from, to) ==
  LET t == IF to > Len(buf) THEN Len(buf) ELSE to
  IN IF from >= t THEN <<>> ELSE SubSeq(buf, from + 1, t)

---------------------------------------------------------------------------
(* extractPeerBytes32, index.ts *)

\* the test of one window: headZeros && !tailAllZero
WindowMatchesHeadOnly(s) ==
  \A i \in 1..HeadLen : s[i] = 0

WindowMatches(s) ==
  LET headZeros == \A i \in 1..HeadLen : s[i] = 0
      tailAllZero == \A i \in (HeadLen + 1)..Len(s) : s[i] = 0
  IN headZeros /\ ~tailAllZero

\* The for loop over off = lo .. hi-1 with its early return.  The range is
\* walked in ascending order; it is split in halves only so that the
\* evaluation depth stays logarithmic in the buffer length.
RECURSIVE FirstWindow(_, _, _)
FirstWindow(buf, lo, hi) ==
  IF lo >= hi THEN NullBytes
  ELSE IF hi = lo + 1
       THEN LET s == Subarray(buf, lo, lo + WindowLen)
            IN IF WindowMatches(s) THEN s ELSE NullBytes
       ELSE LET mid == (lo + hi) \div 2
                first == FirstWindow(buf, lo, mid)
            IN IF first # NullBytes THEN first ELSE FirstWindow(buf, mid, hi)

\* off runs while off + 32 <= data.length
extractPeerBytes32(buf) == FirstWindow(buf, 0, Len(buf) - WindowLen + 1)

---------------------------------------------------------------------------
(* looksLikeBytes32EvmAddress / extractAllEvmPeers, scan tool *)

looksLikeBytes32EvmAddress(slice32) ==
  IF Len(slice32) # WindowLen THEN FALSE
  ELSE IF \E i \in 1..HeadLen : slice32[i] # 0 THEN FALSE
  ELSE \E i \in (HeadLen + 1)..WindowLen : slice32[i] # 0

\* one pass of the loop body at offset off, without the find() test
ScanStepNoDedup(buf, off, acc) ==
  LET s == Subarray(buf, off, off + WindowLen)
  IN IF looksLikeBytes32EvmAddress(s)
     THEN Append(acc, [off |-> off, b32 |-> hex(s), evm |-> bytes32ToEvm(s)])
     ELSE acc

\* one pass of the loop body at offset off
ScanStep(buf, off, acc) ==
  LET s == Subarray(buf, off, off + WindowLen)
  IN IF looksLikeBytes32EvmAddress(s)
     THEN LET b32 == hex(s)
              evm == bytes32ToEvm(s)
          IN IF ~ \E i \in 1..Len(acc) : acc[i].evm = evm
             THEN Append(acc, [off |-> off, b32 |-> b32, evm |-> evm])
             ELSE acc
     ELSE acc

\* The for loop over off = lo .. hi-1 threading `out`, in ascending order.
\* The range is split in halves, and the list built by the lower half is
\* bound as a value before the upper half runs, so that the evaluation
\* depth stays logarithmic in the buffer length.
RECURSIVE ScanRange(_, _, _, _)
ScanRange(buf, lo, hi, acc) ==
  IF lo >= hi THEN acc
  ELSE IF hi = lo + 1 THEN ScanStep(buf, lo, acc)
  ELSE CHOOSE r \in { ScanRange(buf, (lo + hi) \div 2, hi, lower) :
                        lower \in { ScanRange(buf, lo, (lo + hi) \div 2, acc) } } :
         TRUE

\* the loop bound written off + 32 < data.length
extractAllEvmPeersShort(buf) == ScanRange(buf, 0, Len(buf) - WindowLen, <<>>)

extractAllEvmPeers(buf) == ScanRange(buf, 0, Len(buf) - WindowLen + 1, <<>>)

---------------------------------------------------------------------------
(* Input buffers for the extractors: up to MaxPieces pieces of a palette *)

Window(tail) == [kind |-> "window", bytes |-> Rep(0, HeadLen) \o tail]
Filler(bs) == [kind |-> "filler", bytes |-> bs]
Raw(bs) == [kind |-> "raw", bytes |-> bs]

Palette ==
  { Window(Rep(171, 20)),
    Window(Rep(205, 20)),
    Window(Rep(0, 19) \o <<1>>),
    Filler(Rep(255, 32)),
    Filler(Rep(0, 32)),
    Raw(<<0>>),
    Raw(<<171>>) }

Layouts == UNION { [1..n -> Palette] : n \in 0..MaxPieces }

RECURSIVE Flatten(_)
Flatten(ps) == IF ps = <<>> THEN <<>> ELSE Head(ps).bytes \o Flatten(Tail(ps))

IdleExtract ==
  /\ pieces = <<>> /\ data = <<>> /\ peerB32 = NullBytes /\ peers = <<>>
  /\ fpc = "idle"

InitExtract ==
  /\ pieces \in Layouts
  /\ data = Flatten(pieces)
  /\ peerB32 = NullBytes
  /\ peers = <<>>
  /\ fpc = "ready"

CallExtractPeerBytes32 ==
  /\ fpc = "ready"
  /\ peerB32' = extractPeerBytes32(data)
  /\ fpc' = "one"
  /\ UNCHANGED <<pieces, data, peers>>
  /\ UNCHANGED <<varsIndex, varsEnum, varsDerive>>

CallExtractAllEvmPeers ==
  /\ fpc = "ready"
  /\ peers' = extractAllEvmPeers(data)
  /\ fpc' = "all"
  /\ UNCHANGED <<pieces, data, peerB32>>
  /\ UNCHANGED <<varsIndex, varsEnum, varsDerive>>

---------------------------------------------------------------------------
(* Address derivation: u32LE / u32BE, deriveStorePda, derivePeerPda,       *)
(* peerPdaFor                                                              *)

\* Buffer.alloc(4) then writeUInt32LE(n): bytes at index 0..3, low byte
\* first.  writeUInt32* throws ERR_OUT_OF_RANGE outside 0 .. 2^32-1.
InU32(n) == n >= 0

u32LE(n) == << n % 256, (n \div 256) % 256, (n \div 65536) % 256,
               (n \div 16777216) % 256 >>

\* writeUInt32LE written where writeUInt32BE was meant
u32BEasLE(n) == u32LE(n)

u32BE(n) == << (n \div 16777216) % 256, (n \div 65536) % 256,
               (n \div 256) % 256, n % 256 >>

\* PublicKey.findProgramAddressSync(seeds, programId)[0] of @solana/web3.js:
\* a deterministic function of (seeds, programId), taken to be injective.
FindProgramAddress(seeds, programId) == [program |-> programId, seeds |-> seeds]

NullKey == [program |-> NullStr, seeds |-> <<>>]

ProgramId == "P"

deriveStorePda(programId) == FindProgramAddress(<<"Store">>, programId)

StorePda == deriveStorePda(ProgramId)

\* the two derivations at the head of derivePeerPda
PeerPdaLE(programId, store, eid) ==
  FindProgramAddress(<<"Peer", store, u32LE(eid)>>, programId)

PeerPdaBE(programId, store, eid) ==
  FindProgramAddress(<<"Peer", store, u32BE(eid)>>, programId)

\* peerPdaFor of the enumerate tool
peerPdaFor(programId, store, eid, endian) ==
  LET seedEid == IF endian = "LE" THEN u32LE(eid) ELSE u32BE(eid)
  IN FindProgramAddress(<<"Peer", store, seedEid>>, programId)

\* k.toBase58(), rendered from what the address was derived from
RECURSIVE Base58(_)
Base58(k) ==
  IF Len(k.seeds) = 1 THEN k.program \o "/" \o k.seeds[1]
  ELSE k.program \o "/" \o k.seeds[1] \o "/" \o Base58(k.seeds[2])
       \o "/" \o ToHexString(k.seeds[3])

toB58(k) == IF k = NullKey THEN NullStr ELSE Base58(k)

---------------------------------------------------------------------------
(* index.ts: derivePeerPda, readOne, main *)

NullAi == [present |-> FALSE, data |-> <<>>]


\* an account with empty data taken for a missing one
getAccountInfoNonEmpty(p) ==
  IF p \in DOMAIN ledger /\ Len(ledger[p]) > 0
  THEN [present |-> TRUE, data |-> ledger[p]] ELSE NullAi

\* conn.getAccountInfo(p)
getAccountInfo(p) ==
  IF p \in DOMAIN ledger THEN [present |-> TRUE, data |-> ledger[p]] ELSE NullAi

DefaultEids == <<30101, 30102, 30106, 30109, 30110, 30111, 30145, 30168, 30184>>

\* args.eidlist?.split(",").map(parseInt).filter(isFinite) || [defaults]
\* (an empty array is truthy: an eidlist with no number gives no eids)
Eids == IF args.hasEidlist THEN args.eidlist ELSE DefaultEids

\* args.eid ?? 30109
TargetEid == IF args.hasEid THEN args.eid ELSE DefaultEid

NoCur == [eid |-> 0, pLE |-> NullKey, pBE |-> NullKey,
          pda |-> NullKey, ai |-> NullAi, endian |-> NullStr]

\* derivePeerPda up to its first await
Derived(eid) ==
  [eid |-> eid,
   pLE |-> PeerPdaLE(ProgramId, StorePda, eid),
   pBE |-> PeerPdaBE(ProgramId, StorePda, eid),
   pda |-> NullKey, ai |-> NullAi, endian |-> NullStr]

\* readOne after derivePeerPda returned `peer`
ReadOneRow(peer) ==
  LET b32 == IF peer.ai.present THEN extractPeerBytes32(peer.ai.data)
             ELSE NullBytes
      evm == IF b32 # NullBytes THEN bytes32ToEvm(b32) ELSE NullStr
  IN [eid |-> peer.eid,
      peerPda |-> toB58(peer.pda),
      exists |-> peer.ai.present,
      endian |-> peer.endian,
      bytes32 |-> IF b32 # NullBytes THEN hex(b32) ELSE NullStr,
      evm |-> evm]

\* rows.sort((a, b) => a.eid - b.eid): stable, ascending by eid
InsertByEid(sorted, x) ==
  LET k == Cardinality({i \in 1..Len(sorted) : sorted[i].eid <= x.eid})
  IN SubSeq(sorted, 1, k) \o <<x>> \o SubSeq(sorted, k + 1, Len(sorted))

RECURSIVE SortByEid(_)
SortByEid(s) ==
  IF s = <<>> THEN <<>>
  ELSE InsertByEid(SortByEid(SubSeq(s, 1, Len(s) - 1)), s[Len(s)])

\* peers: rows.sort(...)
ReportPeers(s) == SortByEid(s)

\* the batch loop without its try/catch: any throw ends main()
ThrowAborts ==
  /\ pc' = "exit1"
  /\ UNCHANGED <<idx, rows, out, threw>>

\* a throw out of readOne: main().catch exits 1 in targeted mode, the batch
\* loop's catch swallows it and goes on with the next eid
Throw ==
  IF args.list
  THEN /\ threw' = threw \cup {idx}
       /\ idx' = idx + 1
       /\ pc' = "loop"
       /\ UNCHANGED <<rows, out>>
  ELSE /\ pc' = "exit1"
       /\ UNCHANGED <<idx, rows, out, threw>>

\* main, targeted mode: readOne(args.eid ?? 30109) up to the first fetch
StartTargeted ==
  /\ pc = "start"
  /\ ~args.list
  /\ IF InU32(TargetEid)
     THEN /\ cur' = Derived(TargetEid)
          /\ pc' = "fetchLE"
          /\ UNCHANGED <<idx, rows, out, threw>>
     ELSE /\ cur' = cur
          /\ Throw
  /\ UNCHANGED <<args, ledger>>
  /\ UNCHANGED <<varsExtract, varsEnum, varsDerive>>

\* main, list mode: eids computed, rows = []
StartList ==
  /\ pc = "start"
  /\ args.list
  /\ idx' = 1
  /\ pc' = "loop"
  /\ UNCHANGED <<args, ledger, cur, rows, out, threw>>
  /\ UNCHANGED <<varsExtract, varsEnum, varsDerive>>

\* for (const eid of eids): readOne(eid) up to the first fetch
LoopNext ==
  /\ pc = "loop"
  /\ idx <= Len(Eids)
  /\ IF InU32(Eids[idx])
     THEN /\ cur' = Derived(Eids[idx])
          /\ pc' = "fetchLE"
          /\ UNCHANGED <<idx, rows, out, threw>>
     ELSE /\ cur' = cur
          /\ Throw
  /\ UNCHANGED <<args, ledger>>
  /\ UNCHANGED <<varsExtract, varsEnum, varsDerive>>

\* const aiLE = await conn.getAccountInfo(pLE); if (aiLE) return ...
FetchLE ==
  /\ pc = "fetchLE"
  /\ LET aiLE == getAccountInfo(cur.pLE)
     IN IF aiLE.present
        THEN /\ cur' = [cur EXCEPT !.pda = cur.pLE, !.ai = aiLE, !.endian = "LE"]
             /\ pc' = "return"
        ELSE /\ cur' = cur
             /\ pc' = "fetchBE"
  /\ UNCHANGED <<args, ledger, idx, rows, out, threw>>
  /\ UNCHANGED <<varsExtract, varsEnum, varsDerive>>

\* const aiBE = await conn.getAccountInfo(pBE); if (aiBE) return ...; return nulls
FetchBE ==
  /\ pc = "fetchBE"
  /\ LET aiBE == getAccountInfo(cur.pBE)
     IN IF aiBE.present
        THEN cur' = [cur EXCEPT !.pda = cur.pBE, !.ai = aiBE, !.endian = "BE"]
        ELSE cur' = [cur EXCEPT !.pda = NullKey, !.ai = NullAi, !.endian = NullStr]
  /\ pc' = "return"
  /\ UNCHANGED <<args, ledger, idx, rows, out, threw>>
  /\ UNCHANGED <<varsExtract, varsEnum, varsDerive>>

\* either getAccountInfo rejects (RPC failure)
FetchThrows ==
  /\ pc \in {"fetchLE", "fetchBE"}
  /\ Throw
  /\ UNCHANGED <<args, ledger, cur>>
  /\ UNCHANGED <<varsExtract, varsEnum, varsDerive>>

\* the rest of readOne, and what its caller does with the row
ReadOneReturn ==
  /\ pc = "return"
  /\ LET r == ReadOneRow(cur)
     IN IF args.list
        THEN /\ rows' = IF r.exists THEN Append(rows, r) ELSE rows
             /\ idx' = idx + 1
             /\ pc' = "loop"
             /\ out' = out
        ELSE /\ out' = [kind |-> "one", peersFound |-> 1, peers |-> <<r>>]
             /\ pc' = "done"
             /\ UNCHANGED <<idx, rows>>
  /\ UNCHANGED <<args, ledger, cur, threw>>
  /\ UNCHANGED <<varsExtract, varsEnum, varsDerive>>

\* after the loop: the report of list mode
LoopDone ==
  /\ pc = "loop"
  /\ idx > Len(Eids)
  /\ out' = [kind |-> "list", peersFound |-> Len(rows), peers |-> ReportPeers(rows)]
  /\ rows' = ReportPeers(rows)
  /\ pc' = "done"
  /\ UNCHANGED <<args, ledger, idx, cur, threw>>
  /\ UNCHANGED <<varsExtract, varsEnum, varsDerive>>

NextIndex ==
  \/ StartTargeted \/ StartList \/ LoopNext \/ FetchLE \/ FetchBE
  \/ FetchThrows \/ ReadOneReturn \/ LoopDone

---------------------------------------------------------------------------
(* Inputs of index.ts: the command line and the ledger *)

PartialFns(D, R) == UNION { [S -> R] : S \in SUBSET D }

\* 16777217 = 0x01000001 reads the same in both byte orders
TargetEids == {30109, 16777217, -1}

ListEids == {30101, 30109, -1}

PeerAddrs(eid) ==
  IF InU32(eid)
  THEN {PeerPdaLE(ProgramId, StorePda, eid), PeerPdaBE(ProgramId, StorePda, eid)}
  ELSE {}

\* peer records of the tracked length: 8 bytes, the 32-byte peer slot
\* 0x00*12 ++ 0xAB*20 at bytes 8..39, then the rest of the record
Scenario(prefix, fill) ==
  prefix \o Rep(0, HeadLen) \o Rep(171, 20)
         \o Rep(fill, RecordLen - PeerOffset - WindowLen)

ScenarioBuffers ==
  { Scenario(prefix, fill) :
      prefix \in {Rep(17, 8), Rep(0, 8), Rep(17, 7) \o <<0>>},
      fill \in {0, 255} }

NoMatchBuffers == { <<>>, Rep(0, 31), Rep(255, RecordLen), Rep(0, RecordLen) }

TargetBuffers == ScenarioBuffers \cup NoMatchBuffers

ListBuffers == { Rep(17, 8) \o Rep(0, HeadLen) \o Rep(171, 20), <<0, 0, 0>> }

ListInputs == UNION { [1..n -> ListEids] : n \in 0..MaxList }

IdleIndex ==
  /\ args = [list |-> FALSE, hasEid |-> FALSE, eid |-> 0,
             hasEidlist |-> FALSE, eidlist |-> <<>>]
  /\ ledger = <<>>
  /\ pc = "idle" /\ idx = 0 /\ cur = NoCur /\ rows = <<>>
  /\ out = [kind |-> "none", peersFound |-> 0, peers |-> <<>>]
  /\ threw = {}

InitTargeted ==
  /\ args \in { [list |-> FALSE, hasEid |-> FALSE, eid |-> 0,
                 hasEidlist |-> FALSE, eidlist |-> <<>>] }
         \cup { [list |-> FALSE, hasEid |-> TRUE, eid |-> e,
                 hasEidlist |-> FALSE, eidlist |-> <<>>] : e \in TargetEids }
  /\ ledger \in PartialFns(PeerAddrs(TargetEid), TargetBuffers)

InitList ==
  /\ args \in { [list |-> TRUE, hasEid |-> FALSE, eid |-> 0,
                 hasEidlist |-> FALSE, eidlist |-> <<>>] }
         \cup { [list |-> TRUE, hasEid |-> FALSE, eid |-> 0,
                 hasEidlist |-> TRUE, eidlist |-> l] : l \in ListInputs }
  /\ ledger \in PartialFns(PeerAddrs(30101) \cup PeerAddrs(30109), ListBuffers)

InitIndex ==
  /\ InitTargeted \/ InitList
  /\ pc = "start" /\ idx = 0 /\ cur = NoCur /\ rows = <<>>
  /\ out = [kind |-> "none", peersFound |-> 0, peers |-> <<>>]
  /\ threw = {}

---------------------------------------------------------------------------
(* Enumerate tool (part_000, lines 1..94) *)

CANDIDATE_EIDS == <<30101, 30102, 30106, 30109, 30110, 30111, 30145, 30168, 30184>>

\* accs.filter(a => a.account.data.length === 1654)
FilterByLen(as) == SelectSeq(as, LAMBDA a : Len(a.data) = RecordLen)


\* the peer read at offset 0 instead of 8
EnumRowAt0(a) ==
  LET peer32 == Subarray(a.data, 0, WindowLen)
  IN [acc |-> a.pubkey, dataLen |-> Len(a.data),
      peerBytes32 |-> hex(peer32), peerEvm |-> bytes32ToEvm(peer32)]

\* the row of one candidate: peer read at the fixed offset 8
EnumRow(a) ==
  LET peer32 == Subarray(a.data, PeerOffset, PeerOffset + WindowLen)
  IN [acc |-> a.pubkey, dataLen |-> Len(a.data),
      peerBytes32 |-> hex(peer32), peerEvm |-> bytes32ToEvm(peer32)]

\* the inner loop over CANDIDATE_EIDS from position i on, with its breaks
RECURSIVE Attribute(_, _)
Attribute(r, i) ==
  IF i > Len(CANDIDATE_EIDS)
  THEN [eid |-> UnknownEid, endian |-> "LE", acc |-> toB58(r.acc),
        peerEvm |-> r.peerEvm, peerBytes32 |-> r.peerBytes32]
  ELSE LET eid == CANDIDATE_EIDS[i]
           pLE == peerPdaFor(ProgramId, StorePda, eid, "LE")
           pBE == peerPdaFor(ProgramId, StorePda, eid, "BE")
       IN IF pLE = r.acc
          THEN [eid |-> eid, endian |-> "LE", acc |-> toB58(r.acc),
                peerEvm |-> r.peerEvm, peerBytes32 |-> r.peerBytes32]
          ELSE IF pBE = r.acc
          THEN [eid |-> eid, endian |-> "BE", acc |-> toB58(r.acc),
                peerEvm |-> r.peerEvm, peerBytes32 |-> r.peerBytes32]
          ELSE Attribute(r, i + 1)

RECURSIVE DecString(_)
DecString(n) ==
  IF n < 10 THEN HexDigits[n + 1]
  ELSE DecString(n \div 10) \o HexDigits[(n % 10) + 1]

\* one printed line of the EID -> Peer map
PrintLine(x) ==
  [tag |-> IF x.eid = UnknownEid THEN "UNKNOWN_EID" ELSE DecString(x.eid),
   endian |-> x.endian, acc |-> x.acc, peer |-> x.peerEvm, b32 |-> x.peerBytes32]

\* resolved.sort((a, b) => a.eid - b.eid)
SortResolved(s) == SortByEid(s)

\* getProgramAccounts answered; the length filter and the early return
EnumFilter ==
  /\ epc = "start"
  /\ candidates' = FilterByLen(accs)
  /\ IF Len(FilterByLen(accs)) = 0
     THEN /\ printed' = <<[note |-> "No 1654-byte accounts found"]>>
          /\ epc' = "done"
     ELSE /\ printed' = printed
          /\ epc' = "rows"
  /\ UNCHANGED <<accs, erows, resolved>>
  /\ UNCHANGED <<varsExtract, varsIndex, varsDerive>>

EnumRows ==
  /\ epc = "rows"
  /\ erows' = [i \in 1..Len(candidates) |-> EnumRow(candidates[i])]
  /\ epc' = "resolve"
  /\ UNCHANGED <<accs, candidates, resolved, printed>>
  /\ UNCHANGED <<varsExtract, varsIndex, varsDerive>>

EnumResolve ==
  /\ epc = "resolve"
  /\ resolved' = [i \in 1..Len(erows) |-> Attribute(erows[i], 1)]
  /\ epc' = "print"
  /\ UNCHANGED <<accs, candidates, erows, printed>>
  /\ UNCHANGED <<varsExtract, varsIndex, varsDerive>>

EnumPrint ==
  /\ epc = "print"
  /\ resolved' = SortResolved(resolved)
  /\ printed' = [i \in 1..Len(resolved) |-> PrintLine(SortResolved(resolved)[i])]
  /\ epc' = "done"
  /\ UNCHANGED <<accs, candidates, erows>>
  /\ UNCHANGED <<varsExtract, varsIndex, varsDerive>>

NextEnum == EnumFilter \/ EnumRows \/ EnumResolve \/ EnumPrint

\* program-owned accounts the ledger may list
EnumPubkeys ==
  { peerPdaFor(ProgramId, StorePda, 30109, "LE"),
    peerPdaFor(ProgramId, StorePda, 30101, "BE"),
    peerPdaFor(ProgramId, StorePda, 40231, "LE"),
    StorePda }

EnumBuffers ==
  { Scenario(Rep(17, 8), 0),
    Rep(0, RecordLen),
    Rep(17, 8) \o <<1>> \o Rep(0, HeadLen) \o Rep(205, 20)
       \o Rep(0, RecordLen - PeerOffset - WindowLen - 1),
    Rep(17, 8) \o Rep(0, HeadLen) \o Rep(171, 20) }

AccountLists ==
  UNION { { as \in [1..n -> [pubkey : EnumPubkeys, data : EnumBuffers]] :
              \A i, j \in 1..n : i # j => as[i].pubkey # as[j].pubkey } :
          n \in 0..MaxAccounts }

IdleEnum ==
  /\ accs = <<>> /\ candidates = <<>> /\ erows = <<>> /\ resolved = <<>>
  /\ printed = <<>> /\ epc = "idle"

InitEnum ==
  /\ accs \in AccountLists
  /\ candidates = <<>> /\ erows = <<>> /\ resolved = <<>>
  /\ printed = <<>> /\ epc = "start"

---------------------------------------------------------------------------
(* The derivation of the two peer addresses of one identifier *)

EidBytes == {0, 1, 117, 157}

\* identifiers below 2^31, written with the bytes of EidBytes
EidDomain ==
  { b0 + 256 * b1 + 65536 * b2 + 16777216 * b3 :
      b0 \in EidBytes, b1 \in EidBytes, b2 \in EidBytes, b3 \in {0, 1, 117} }

IdleDerive ==
  /\ dEid = 0 /\ dSeeds = <<>> /\ dPdas = <<>> /\ dpc = "idle"

InitDerive ==
  /\ dEid \in EidDomain
  /\ dSeeds = <<>> /\ dPdas = <<>> /\ dpc = "start"

\* the seeds and addresses derivePeerPda and peerPdaFor compute for dEid
DeriveBoth ==
  /\ dpc = "start"
  /\ dSeeds' = [LE |-> u32LE(dEid), BE |-> u32BE(dEid)]
  /\ dPdas' = [LE |-> PeerPdaLE(ProgramId, StorePda, dEid),
               BE |-> PeerPdaBE(ProgramId, StorePda, dEid),
               forLE |-> peerPdaFor(ProgramId, StorePda, dEid, "LE"),
               forBE |-> peerPdaFor(ProgramId, StorePda, dEid, "BE")]
  /\ dpc' = "derived"
  /\ UNCHANGED dEid
  /\ UNCHANGED <<varsExtract, varsIndex, varsEnum>>

NextDerive == DeriveBoth

---------------------------------------------------------------------------
(* Specifications: one per tool *)

NextExtract == CallExtractPeerBytes32 \/ CallExtractAllEvmPeers

StartExtract == InitExtract /\ IdleIndex /\ IdleEnum /\ IdleDerive

StartIndex == IdleExtract /\ InitIndex /\ IdleEnum /\ IdleDerive

StartEnum == IdleExtract /\ IdleIndex /\ InitEnum /\ IdleDerive

StartDerive == IdleExtract /\ IdleIndex /\ IdleEnum /\ InitDerive

SpecExtract == StartExtract /\ [][NextExtract]_vars

SpecIndex == StartIndex /\ [][NextIndex]_vars

SpecEnum == StartEnum /\ [][NextEnum]_vars

SpecDerive == StartDerive /\ [][NextDerive]_vars

Init == StartExtract \/ StartIndex \/ StartEnum \/ StartDerive

Next == NextExtract \/ NextIndex \/ NextEnum \/ NextDerive

Spec == Init /\ [][Next]_vars

---------------------------------------------------------------------------
(* What the claims speak of, stated on the bytes themselves *)

\* the 32-byte window at offset o: 12 zero bytes, then 20 bytes not all zero
IsPeerWindow(buf, o) ==
  /\ \A i \in 1..12 : buf[o + i] = 0
  /\ \E i \in 13..32 : buf[o + i] # 0

MatchOffsets(buf) == { o \in 0..(Len(buf) - 32) : IsPeerWindow(buf, o) }

WindowAt(buf, o) == SubSeq(buf, o + 1, o + 32)

TailAt(buf, o) == SubSeq(buf, o + 13, o + 32)

EvmOf(bytes20) == "0x" \o ToHexString(bytes20)

Min(S) == CHOOSE x \in S : \A y \in S : x <= y

Ascending(offs) == \A i, j \in 1..Len(offs) : i < j => offs[i] < offs[j]

---------------------------------------------------------------------------
\* C1: for every buffer (any length, also < 32 and 0) extractPeerBytes32
\* returns the 32-byte window at the lowest offset whose first 12 bytes are
\* zero and whose last 20 bytes are not all zero, returns null exactly when
\* no offset qualifies, and leaves the buffer as it was.
C1_FirstWindow ==
  fpc = "one" =>
    LET M == MatchOffsets(data)
    IN /\ data = Flatten(pieces)
       /\ (M = {}) <=> (peerB32 = NullBytes)
       /\ M # {} => peerB32 = WindowAt(data, Min(M))

C1_Witness ==
  /\ fpc = "one"
  /\ Cardinality(MatchOffsets(data)) > 1
  /\ Min(MatchOffsets(data)) > 0
  /\ peerB32 = WindowAt(data, Min(MatchOffsets(data)))

---------------------------------------------------------------------------
(* C3: buffers built of k windows separated by filler *)

PieceOffset(ps, i) == Len(Flatten(SubSeq(ps, 1, i - 1)))

WindowPieces(ps) == { i \in 1..Len(ps) : ps[i].kind = "window" }

WindowOffsets(ps) == { PieceOffset(ps, i) : i \in WindowPieces(ps) }

\* only windows and filler; two windows never adjacent (every filler piece
\* is 32 bytes long); no window matches inside any stretch of filler
IsWindowsAndFiller(ps) ==
  /\ \A i \in 1..Len(ps) : ps[i].kind \in {"window", "filler"}
  /\ \A i \in 1..(Len(ps) - 1) : ~(ps[i].kind = "window" /\ ps[i + 1].kind = "window")
  /\ \A i \in 1..Len(ps) : \A j \in i..Len(ps) :
       (\A m \in i..j : ps[m].kind = "filler")
         => MatchOffsets(Flatten(SubSeq(ps, i, j))) = {}

DistinctTails(ps) ==
  \A i, j \in WindowPieces(ps) : i # j => ps[i].bytes # ps[j].bytes

\* C3 as claimed: k windows separated by at least 32 bytes of filler in
\* which no window matches give exactly k candidates, in ascending offset
\* order.
C3_Original ==
  (fpc = "all" /\ IsWindowsAndFiller(pieces)) =>
    /\ Len(peers) = Cardinality(WindowPieces(pieces))
    /\ Ascending([i \in 1..Len(peers) |-> peers[i].off])

\* C3 (amended): when moreover the k windows carry pairwise different
\* 20-byte values and no other 32-byte window of the whole buffer matches
\* (none across a window/filler boundary either), extractAllEvmPeers returns
\* exactly k candidates, at the offsets of the k windows, in ascending order.
C3_Completeness ==
  (/\ fpc = "all"
   /\ IsWindowsAndFiller(pieces)
   /\ DistinctTails(pieces)
   /\ MatchOffsets(data) = WindowOffsets(pieces)) =>
    /\ Len(peers) = Cardinality(WindowPieces(pieces))
    /\ Ascending([i \in 1..Len(peers) |-> peers[i].off])
    /\ { peers[i].off : i \in 1..Len(peers) } = WindowOffsets(pieces)

C3_Witness ==
  /\ fpc = "all"
  /\ IsWindowsAndFiller(pieces)
  /\ DistinctTails(pieces)
  /\ MatchOffsets(data) = WindowOffsets(pieces)
  /\ Cardinality(WindowPieces(pieces)) = 2
  /\ Len(peers) = 2

---------------------------------------------------------------------------
\* C4: the list of extractAllEvmPeers holds no two entries with the same
\* 20-byte value; for each value carried by some matching window it holds
\* exactly one entry, at the lowest offset where a matching window carries
\* that value; the entries are in strictly ascending offset order.
C4_Dedup ==
  fpc = "all" =>
    LET M == MatchOffsets(data)
        n == Len(peers)
    IN /\ \A i, j \in 1..n : i # j => peers[i].evm # peers[j].evm
       /\ Ascending([i \in 1..n |-> peers[i].off])
       /\ \A i \in 1..n :
            /\ peers[i].off \in M
            /\ peers[i].evm = EvmOf(TailAt(data, peers[i].off))
       /\ \A o \in M :
            LET first == Min({ q \in M : TailAt(data, q) = TailAt(data, o) })
            IN Cardinality({ i \in 1..n : peers[i].evm = EvmOf(TailAt(data, o)) }) = 1
               /\ \E i \in 1..n : peers[i].off = first
                                  /\ peers[i].evm = EvmOf(TailAt(data, o))

\* a value found at several offsets, and a second value after it
C4_Witness ==
  /\ fpc = "all"
  /\ Len(peers) >= 2
  /\ \E o, q \in MatchOffsets(data) : o < q /\ TailAt(data, o) = TailAt(data, q)
  /\ Cardinality(MatchOffsets(data)) > Len(peers)

---------------------------------------------------------------------------
(* Targeted lookup (index.ts without --list) *)

\* the two peer addresses of identifier 30109 = 0x0000759D, seeds written out
Peer30109LE == [program |-> "P",
                seeds |-> <<"Peer", [program |-> "P", seeds |-> <<"Store">>],
                            <<157, 117, 0, 0>>>>]

Peer30109BE == [program |-> "P",
                seeds |-> <<"Peer", [program |-> "P", seeds |-> <<"Store">>],
                            <<0, 0, 117, 157>>>>]

\* length 1654, bytes 8..39 = 0x00*12 ++ 0xAB*20
IsScenario1Buffer(b) ==
  /\ Len(b) = 1654
  /\ \A i \in 9..20 : b[i] = 0
  /\ \A i \in 21..40 : b[i] = 171

TargetedDone == pc = "done" /\ ~args.list

\* the row of the finished targeted lookup
Row == out.peers[1]

\* the scenario buffer b is the one account stored at the two peer addresses
\* of 30109, at address a; the lookup answers exists, 0xAB*20 and the byte
\* order of a
Scenario1Holds(a, b) ==
  /\ Row.exists
  /\ Row.evm = "0xabababababababababababababababababababab"
  /\ Row.evm = EvmOf(SubSeq(b, 21, 40))
  /\ Row.endian = (IF a = Peer30109LE THEN "LE" ELSE "BE")
  /\ Row.peerPda = toB58(a)

\* C2 as claimed: every buffer of length 1654 with bytes 8..39 =
\* 0x00*12 ++ 0xAB*20, all other bytes arbitrary, stored at the LE- or
\* BE-derived peer address of 30109: readOne returns exists = true, the
\* twenty 0xAB bytes, and the byte order of the address it is stored at.
C2_Original ==
  (TargetedDone /\ TargetEid = 30109) =>
    \A a \in {Peer30109LE, Peer30109BE} :
      (DOMAIN ledger = {a} /\ IsScenario1Buffer(ledger[a]))
        => Scenario1Holds(a, ledger[a])

\* C2 (amended): the same for every such buffer whose byte 7 is not zero,
\* so that no window at an offset below 8 matches.
C2_Scenario1 ==
  (TargetedDone /\ TargetEid = 30109) =>
    \A a \in {Peer30109LE, Peer30109BE} :
      (DOMAIN ledger = {a} /\ IsScenario1Buffer(ledger[a]) /\ ledger[a][8] # 0)
        => Scenario1Holds(a, ledger[a])

C2_Witness ==
  /\ TargetedDone
  /\ TargetEid = 30109
  /\ DOMAIN ledger = {Peer30109BE}
  /\ IsScenario1Buffer(ledger[Peer30109BE])
  /\ ledger[Peer30109BE][8] # 0
  /\ Row.endian = "BE"
  /\ Row.evm = "0xabababababababababababababababababababab"

\* C5: readOne returns exists = false (null address, byte order and remote
\* address) exactly when neither the LE- nor the BE-derived address holds a
\* buffer; it returns exists = true with a null remote address when the
\* buffer it found has no matching 32-byte window (also when it is shorter
\* than 32 bytes).
C5_TargetedResult ==
  TargetedDone =>
    LET le == PeerPdaLE(ProgramId, StorePda, TargetEid)
        be == PeerPdaBE(ProgramId, StorePda, TargetEid)
        held == {le, be} \cap DOMAIN ledger
    IN /\ (Row.exists = FALSE) <=> (held = {})
       /\ ~Row.exists =>
            Row.peerPda = NullStr /\ Row.endian = NullStr /\ Row.evm = NullStr
                                  /\ Row.bytes32 = NullStr
       /\ \A a \in held :
            (toB58(a) = Row.peerPda /\ MatchOffsets(ledger[a]) = {})
              => Row.exists /\ Row.evm = NullStr
       /\ \A a \in held :
            (held = {a} /\ MatchOffsets(ledger[a]) = {})
              => Row.exists /\ Row.evm = NullStr /\ Row.peerPda = toB58(a)

\* a record of the tracked length without any matching window
C5_Witness ==
  /\ TargetedDone
  /\ Row.exists
  /\ Row.evm = NullStr
  /\ \E a \in DOMAIN ledger :
       toB58(a) = Row.peerPda /\ Len(ledger[a]) = 1654
                              /\ MatchOffsets(ledger[a]) = {}

---------------------------------------------------------------------------
(* List mode (index.ts --list) *)

HoldsBuffer(e) == InU32(e) /\ PeerAddrs(e) \cap DOMAIN ledger # {}

\* positions of the list whose lookup ran to its end and found an account
FoundPositions == { i \in 1..Len(Eids) : i \notin threw /\ HoldsBuffer(Eids[i]) }

\* C7: in list mode a lookup that throws never aborts the batch: the loop
\* goes through every element of the list, and the report holds exactly one
\* row per element whose lookup succeeded with exists = true, none for a
\* failed or non-existent identifier, whatever the other lookups did.
C7_BatchPartialResults ==
  args.list =>
    /\ pc # "exit1"
    /\ pc = "done" =>
         /\ idx = Len(Eids) + 1
         /\ out.kind = "list"
         /\ out.peersFound = Len(out.peers)
         /\ Len(out.peers) = Cardinality(FoundPositions)
         /\ \A k \in 1..Len(out.peers) :
              /\ out.peers[k].exists
              /\ \E a \in PeerAddrs(out.peers[k].eid) \cap DOMAIN ledger :
                   out.peers[k].peerPda = toB58(a)
              /\ Cardinality({ m \in 1..Len(out.peers) :
                                 out.peers[m].eid = out.peers[k].eid })
                 = Cardinality({ i \in FoundPositions :
                                   Eids[i] = out.peers[k].eid })
         /\ \A i \in FoundPositions :
              \E k \in 1..Len(out.peers) : out.peers[k].eid = Eids[i]

\* a lookup threw and a later element of the list still got its row
C7_Witness ==
  /\ args.list
  /\ pc = "done"
  /\ \E i \in threw : \E j \in FoundPositions :
       i < j /\ (\E k \in 1..Len(out.peers) : out.peers[k].eid = Eids[j])

---------------------------------------------------------------------------
(* Byte-order attribution *)

KnownOrders == {"LE", "BE"}

\* the targeted lookup: a reported order is the only order whose address is
\* the reported one, and two qualifying orders are not resolved to one
TargetedOrderSound ==
  TargetedDone =>
    LET le == PeerPdaLE(ProgramId, StorePda, TargetEid)
        be == PeerPdaBE(ProgramId, StorePda, TargetEid)
    IN /\ Row.endian = "LE" => (Row.peerPda = toB58(le) /\ Row.peerPda # toB58(be))
       /\ Row.endian = "BE" => (Row.peerPda = toB58(be) /\ Row.peerPda # toB58(le))
       /\ ((le \in DOMAIN ledger /\ be \in DOMAIN ledger) \/ le = be)
            => Row.endian \notin KnownOrders

\* the enumerate tool: an attributed entry carries the order whose address
\* is the account's, an unattributed entry carries no order
EnumOrderSound ==
  epc \in {"print", "done"} =>
    \A i \in 1..Len(resolved) :
      IF resolved[i].eid = UnknownEid
      THEN resolved[i].endian \notin KnownOrders
      ELSE /\ resolved[i].endian \in KnownOrders
           /\ resolved[i].acc =
                toB58(peerPdaFor(ProgramId, StorePda, resolved[i].eid,
                                 resolved[i].endian))
           /\ \A o \in KnownOrders \ {resolved[i].endian} :
                resolved[i].acc #
                  toB58(peerPdaFor(ProgramId, StorePda, resolved[i].eid, o))

\* C6: in every result of the targeted lookup and of the enumerate-mode
\* attribution loop the reported byte order, when not unknown, is the unique
\* order whose derived address is the one the buffer was found at; when both
\* orders qualify the ambiguity is reported and not resolved to one order;
\* an entry attributed to no identifier carries no order but unknown.
C6_ByteOrderAttribution == TargetedOrderSound /\ EnumOrderSound

---------------------------------------------------------------------------
(* Enumerate-mode report *)

Tracked == { i \in 1..Len(accs) : Len(accs[i].data) = 1654 }

IsUnattributed(line) == line.tag = "UNKNOWN_EID"

\* C8: every account of length 1654 appears exactly once in the printed
\* report, attributed or with the unattributed marker; the attributed
\* entries are in ascending identifier order and the unattributed entries
\* come after them.
C8_EnumReport ==
  (epc = "done" /\ Tracked # {}) =>
    /\ Len(printed) = Cardinality(Tracked)
    /\ \A i \in Tracked :
         Cardinality({ k \in 1..Len(printed) :
                         printed[k].acc = toB58(accs[i].pubkey) }) = 1
    /\ \A k, m \in 1..Len(printed) :
         (k < m /\ ~IsUnattributed(printed[k]) /\ ~IsUnattributed(printed[m]))
           => resolved[k].eid <= resolved[m].eid
    /\ \A k, m \in 1..Len(printed) :
         (IsUnattributed(printed[k]) /\ ~IsUnattributed(printed[m])) => m < k

\* the account a printed line is about
AccountOf(line) == CHOOSE a \in { accs[i] : i \in Tracked } : toB58(a.pubkey) = line.acc

---------------------------------------------------------------------------
(* Both byte orders *)

ByteOf(n, i) ==
  IF i = 0 THEN n % 256
  ELSE IF i = 1 THEN (n \div 256) % 256
  ELSE IF i = 2 THEN (n \div 65536) % 256
  ELSE (n \div 16777216) % 256

IsPalindrome(n) == ByteOf(n, 0) = ByteOf(n, 3) /\ ByteOf(n, 1) = ByteOf(n, 2)

\* C10: u32LE(n) and u32BE(n) are byte reversals of each other; with an
\* injective derivation the LE- and BE-derived peer addresses differ when
\* the four bytes of n are no palindrome and are the same only when they are.
C10_BothOrders ==
  dpc = "derived" =>
    /\ Len(dSeeds.LE) = 4 /\ Len(dSeeds.BE) = 4
    /\ \A i \in 1..4 : dSeeds.LE[i] = ByteOf(dEid, i - 1)
    /\ \A i \in 1..4 : dSeeds.BE[i] = dSeeds.LE[5 - i]
    /\ (dPdas.LE = dPdas.BE) <=> IsPalindrome(dEid)
    /\ (dPdas.forLE = dPdas.forBE) <=> IsPalindrome(dEid)

C10_Witness ==
  /\ dpc = "derived"
  /\ dEid = 30109
  /\ dSeeds.LE = <<157, 117, 0, 0>>
  /\ dSeeds.BE = <<0, 0, 117, 157>>
  /\ dPdas.LE # dPdas.BE

====
